---- MODULE Spec2Model ----
(***************************************************************************)
(* A model of the "des chiffres" solver (src/src/lib.rs, src/src/main.rs): *)
(* the search of every amount reachable from a list of operands by +, *,   *)
(* - and /, run by explorer threads over two channels, a seen set and a    *)
(* result table, and the lookup of a target in that table.                 *)
(***************************************************************************)
EXTENDS Integers, Sequences, FiniteSets, TLC

(***************************************************************************)
(* Bounds of the model.                                                    *)
(***************************************************************************)
\* operands of the enumerated two-operand lists are drawn from 1..MaxOperand
MaxOperand == 3
\* available_parallelism() reports Err or a number in 1..MaxCores
MaxCores == 3
\* solve is called with a target in 1..MaxTarget (and the scenario targets)
MaxTarget == 7
\* solve is called with an approximation in 0..MaxApproximation
MaxApproximation == 2

(***************************************************************************)
(* Program constants.                                                      *)
(***************************************************************************)
\* lib.rs:12
MAX_WORKERS == 1
\* i32::MAX, the width of Number.value (lib.rs:59)
I32Max == 2147483647
I32Min == (-I32Max) - 1

VARIABLES
    program,                \* "lib" (lib.rs) or "main" (main.rs)
    target_arch,            \* cfg!(target_arch = "wasm32")
    available_parallelism,  \* 0 for Err, else the number reported
    base_numbers,           \* the operands
    pc,                     \* where the calling thread is
    combine_chan,           \* the (combine_tx, combine_rx) channel
    result_chan,            \* the (result_tx, result_rx) channel
    seen,                   \* SeenType
    results,                \* ResultSet
    workers,                \* the combination workers (or the js_worker)
    aggregator,             \* the result_worker thread
    solved,                 \* <<>>, or the call of solve and what it returned
    raced,                  \* history: the longest list a worker was in the
                            \* middle of combining when another timed out
                            \* (0: no worker ever was)
    published,              \* history: for each amount sent to result_tx,
                            \* the least len of the Numbers sent with it
    expanded                \* history: how many times combine was called
                            \* on a list of these values, in this order

vars == <<program, target_arch, available_parallelism, base_numbers, pc,
          combine_chan, result_chan, seen, results, workers, aggregator,
          solved, raced, published, expanded>>

(***************************************************************************)
(* Number: a value and an optional parent (operation, a, b).               *)
(* parent = <<>> is None, parent = <<operation, a, b>> is Some.            *)
(***************************************************************************)
From(item) == [value |-> item, parent |-> <<>>]

RECURSIVE len(_)
len(n) ==
    IF n.parent = <<>> THEN 0
    ELSE 1 + len(n.parent[2]) + len(n.parent[3])

(***************************************************************************)
(* remove_from_vec: the vector without its first element of to_remove's    *)
(* value; found = FALSE is the panic.                                      *)
(***************************************************************************)
\* the index of the first element of vec from index i on that has this
\* value, 0 when there is none
RECURSIVE position(_, _, _)
position(vec, value, i) ==
    IF i > Len(vec) THEN 0
    ELSE IF vec[i].value = value THEN i
    ELSE position(vec, value, i + 1)

\* (a CHOOSE over a set of one element, here and below, is that element:
\* it names a value that is used several times)
remove_from_vec(vec, to_remove) ==
    CHOOSE out \in
        {IF i = 0
         THEN [found |-> FALSE, vec |-> vec]
         ELSE [found |-> TRUE,
               vec |-> SubSeq(vec, 1, i - 1) \o SubSeq(vec, i + 1, Len(vec))] :
            i \in {position(vec, to_remove.value, 1)}} : TRUE

(***************************************************************************)
(* i32 arithmetic. The sum of two i32 that does not fit wraps (a build     *)
(* without overflow checks) or panics (a build with them).                 *)
(***************************************************************************)
AddOverflows(aa, bb) ==
    \/ aa > 0 /\ bb > 0 /\ aa > I32Max - bb
    \/ aa < 0 /\ bb < 0 /\ aa < I32Min - bb

WrappingAdd(aa, bb) ==
    IF aa > 0 /\ bb > 0 /\ aa > I32Max - bb
    THEN (aa - I32Max - 1) + (bb - I32Max - 1)
    ELSE IF aa < 0 /\ bb < 0 /\ aa < I32Min - bb
    THEN (aa + I32Max + 1) + (bb + I32Max + 1)
    ELSE aa + bb

SubOverflows(aa, bb) ==
    \/ aa >= 0 /\ bb < 0 /\ aa > I32Max + bb
    \/ aa < 0 /\ bb > 0 /\ aa < I32Min + bb

WrappingSub(aa, bb) ==
    IF aa >= 0 /\ bb < 0 /\ aa > I32Max + bb
    THEN (aa - I32Max - 1) - (bb + I32Max + 1)
    ELSE IF aa < 0 /\ bb > 0 /\ aa < I32Min + bb
    THEN (aa + I32Max + 1) - (bb - I32Max - 1)
    ELSE aa - bb

\* x * p fits an i32, for p > 0
PosMulFits(x, p) ==
    /\ x <= I32Max \div p
    /\ x >= (I32Min + p - 1) \div p

\* (aa as i64 * bb as i64).try_into() is Ok
MulFits(aa, bb) ==
    IF aa = 0 \/ bb = 0 THEN TRUE
    ELSE IF bb > 0 THEN PosMulFits(aa, bb)
    ELSE IF aa > 0 THEN PosMulFits(bb, aa)
    ELSE IF aa = I32Min \/ bb = I32Min THEN FALSE
    ELSE PosMulFits(-aa, -bb)

(***************************************************************************)
(* The match of operate: the value of the operation on aa and bb, <<x>>    *)
(* for Some(x) and <<>> for None. overflow_checks is the build's setting.  *)
(***************************************************************************)
Addition(aa, bb, overflow_checks) ==
    IF AddOverflows(aa, bb)
    THEN IF overflow_checks
         THEN [panic |-> TRUE, value |-> <<>>]
         ELSE [panic |-> FALSE, value |-> <<WrappingAdd(aa, bb)>>]
    ELSE [panic |-> FALSE, value |-> <<aa + bb>>]

\* Multiplication as it would be with try_into::<i16>: C14 tells it apart
MultiplicationNarrow(aa, bb) ==
    IF bb > 0 /\ aa >= 0 /\ aa <= 32767 \div bb
    THEN [panic |-> FALSE, value |-> <<aa * bb>>]
    ELSE [panic |-> FALSE, value |-> <<>>]

Multiplication(aa, bb) ==
    IF MulFits(aa, bb)
    THEN [panic |-> FALSE, value |-> <<aa * bb>>]
    ELSE [panic |-> FALSE, value |-> <<>>]

\* Subtraction as it would be with `aa - bb >= 0`: C3 tells it apart
SubtractionNotStrict(aa, bb, overflow_checks) ==
    IF SubOverflows(aa, bb)
    THEN [panic |-> overflow_checks, value |-> <<>>]
    ELSE IF aa - bb >= 0
         THEN [panic |-> FALSE, value |-> <<aa - bb>>]
         ELSE [panic |-> FALSE, value |-> <<>>]

Subtraction(aa, bb, overflow_checks) ==
    IF SubOverflows(aa, bb)
    THEN IF overflow_checks
         THEN [panic |-> TRUE, value |-> <<>>]
         ELSE IF WrappingSub(aa, bb) > 0
              THEN [panic |-> FALSE, value |-> <<WrappingSub(aa, bb)>>]
              ELSE [panic |-> FALSE, value |-> <<>>]
    ELSE IF aa - bb > 0
         THEN [panic |-> FALSE, value |-> <<aa - bb>>]
         ELSE [panic |-> FALSE, value |-> <<>>]

\* Division as it would be without `aa % bb == 0`: C2 tells it apart
DivisionInexact(aa, bb) ==
    IF bb > 0
    THEN [panic |-> FALSE, value |-> <<aa \div bb>>]
    ELSE [panic |-> FALSE, value |-> <<>>]

Division(aa, bb) ==
    IF bb > 0 /\ aa % bb = 0
    THEN [panic |-> FALSE, value |-> <<aa \div bb>>]
    ELSE [panic |-> FALSE, value |-> <<>>]

Apply(operation, aa, bb, overflow_checks) ==
    CASE operation = "Addition" -> Addition(aa, bb, overflow_checks)
      [] operation = "Multiplication" -> Multiplication(aa, bb)
      [] operation = "Subtraction" -> Subtraction(aa, bb, overflow_checks)
      [] operation = "Division" -> Division(aa, bb)

(***************************************************************************)
(* operate: what one call sends. sent is what goes to rtx (no or one       *)
(* Number), pushed what goes to tx (no or one list of Numbers); panic is   *)
(* an overflow panic or the panic of remove_from_vec.                      *)
(***************************************************************************)
operate(operation, a, b, elements, overflow_checks) ==
    LET r == Apply(operation, a.value, b.value, overflow_checks)
    IN  IF r.panic
        THEN [panic |-> TRUE, sent |-> <<>>, pushed |-> <<>>]
        ELSE IF r.value = <<>>
        THEN [panic |-> FALSE, sent |-> <<>>, pushed |-> <<>>]
        ELSE LET value == [value |-> r.value[1],
                           parent |-> <<operation, a, b>>]
             IN  IF Len(elements) > 2
                 THEN LET r1 == remove_from_vec(elements, a)
                          r2 == remove_from_vec(r1.vec, b)
                      IN  IF r1.found /\ r2.found
                          THEN [panic |-> FALSE, sent |-> <<value>>,
                                pushed |-> <<Append(r2.vec, value)>>]
                          ELSE [panic |-> TRUE, sent |-> <<value>>,
                                pushed |-> <<>>]
                 ELSE [panic |-> FALSE, sent |-> <<value>>, pushed |-> <<>>]

(***************************************************************************)
(* combine: the calls of operate in order. Pairs(n) is                     *)
(* (1..n).combinations(2) in itertools' order; Calls is the six calls made *)
(* for each pair: the operation, and whether a and b are swapped.          *)
(***************************************************************************)
RECURSIVE PairsFrom(_, _, _)
PairsFrom(i, j, n) ==
    IF i >= n THEN <<>>
    ELSE IF j > n THEN PairsFrom(i + 1, i + 2, n)
    ELSE <<<<i, j>>>> \o PairsFrom(i, j + 1, n)

Pairs(n) == PairsFrom(1, 2, n)

\* the calls as they would be with the multiplication first: C18 tells it
\* apart
CallsMultiplicationFirst ==
    << [operation |-> "Multiplication", swap |-> FALSE],
       [operation |-> "Addition", swap |-> FALSE],
       [operation |-> "Subtraction", swap |-> FALSE],
       [operation |-> "Subtraction", swap |-> TRUE],
       [operation |-> "Division", swap |-> FALSE],
       [operation |-> "Division", swap |-> TRUE] >>

Calls ==
    << [operation |-> "Addition", swap |-> FALSE],
       [operation |-> "Multiplication", swap |-> FALSE],
       [operation |-> "Subtraction", swap |-> FALSE],
       [operation |-> "Subtraction", swap |-> TRUE],
       [operation |-> "Division", swap |-> FALSE],
       [operation |-> "Division", swap |-> TRUE] >>

\* the call number `call` for the pair number `pair` of elements
CombineCall(elements, pair, call, overflow_checks) ==
    LET p == Pairs(Len(elements))[pair]
        a == elements[p[1]]
        b == elements[p[2]]
        c == Calls[call]
    IN  IF c.swap
        THEN operate(c.operation, b, a, elements, overflow_checks)
        ELSE operate(c.operation, a, b, elements, overflow_checks)

(***************************************************************************)
(* The key of the seen set: the values of elements, sorted.                *)
(***************************************************************************)
RECURSIVE Insert(_, _)
Insert(x, sorted) ==
    IF sorted = <<>> THEN <<x>>
    ELSE IF x <= Head(sorted) THEN <<x>> \o sorted
    ELSE <<Head(sorted)>> \o Insert(x, Tail(sorted))

RECURSIVE Sort(_)
Sort(s) == IF s = <<>> THEN <<>> ELSE Insert(Head(s), Sort(Tail(s)))

Values(elements) == [i \in 1..Len(elements) |-> elements[i].value]

\* the key as it would be without values.sort(): C15 tells it apart
SeenKeyUnsorted(elements) == Values(elements)

SeenKey(elements) == Sort(Values(elements))

(***************************************************************************)
(* The body of result_worker's loop: value is kept when its amount is new  *)
(* or when the current entry is longer.                                    *)
(***************************************************************************)
\* the comparison as it would be with `>=`: C6 tells it apart
ShorterOrEqual(current, value) == len(current) >= len(value)

Shorter(current, value) == len(current) > len(value)

\* the body as it would be if the first Number of an amount were kept: C11
\* tells it apart
MergeFirstWins(table, value) ==
    IF value.value \in DOMAIN table
    THEN table
    ELSE [k \in DOMAIN table \cup {value.value} |->
             IF k = value.value THEN value ELSE table[k]]

Merge(table, value) ==
    IF value.value \in DOMAIN table
    THEN IF Shorter(table[value.value], value)
         THEN [table EXCEPT ![value.value] = value]
         ELSE table
    ELSE [k \in DOMAIN table \cup {value.value} |->
             IF k = value.value THEN value ELSE table[k]]

RECURSIVE MergeAll(_, _)
MergeAll(table, chan) ==
    IF chan = <<>> THEN table
    ELSE CHOOSE all \in
             {MergeAll(merged, Tail(chan)) :
                 merged \in {Merge(table, Head(chan))}} : TRUE

(***************************************************************************)
(* all_combinations (lib.rs) and all_combinaisons (main.rs): the number of *)
(* combination workers.                                                    *)
(***************************************************************************)
Max(x, y) == IF x >= y THEN x ELSE y
Min(x, y) == IF x <= y THEN x ELSE y

ncores ==
    IF available_parallelism = 0
    THEN IF program = "lib" THEN 1 ELSE 4
    ELSE Max(2, available_parallelism)

n_workers ==
    IF program = "lib" THEN Min(ncores - 1, MAX_WORKERS) ELSE ncores - 1

(***************************************************************************)
(* The inputs: the operands, the target and the approximation of solve.    *)
(***************************************************************************)
\* the lists of two operands
TwoOperands ==
    {<<x, y>> : x \in 1..MaxOperand, y \in 1..MaxOperand}
        \cup {<<1, 1>>, <<5, 5>>, <<3, 7>>}

\* the lists of three operands run with two combination workers
RacedOperands == {<<1, 1, 1>>, <<1, 1, 2>>}

\* the lists of three operands run with at most one combination worker
ThreeOperands == RacedOperands \cup {<<1, 2, 3>>, <<6, 2, 2>>}

OperandLists == TwoOperands \cup ThreeOperands

Targets == (1..MaxTarget) \cup {10, 100}

Approximations == 0..MaxApproximation

Idle == [pc |-> "recv", elements |-> <<>>, pair |-> 0]

TypeOK ==
    /\ program \in {"lib", "main"}
    /\ target_arch \in {"native", "wasm32"}
    /\ available_parallelism \in 0..MaxCores
    /\ base_numbers \in OperandLists
    /\ pc \in {"seeded", "spawned", "dropped", "js", "returned", "panicked",
               "solved"}
    /\ aggregator \in {"unspawned", "recv", "done"}
    /\ \A w \in DOMAIN workers :
          workers[w].pc \in {"recv", "drain", "try_recv", "gate", "combine",
                             "done", "panicked"}

(***************************************************************************)
(* Init: all_combinations has made the channels, the seen set and the      *)
(* result table and has sent the initial list (lib.rs:313-330).            *)
(***************************************************************************)
Init ==
    /\ program \in {"lib", "main"}
    /\ target_arch \in {"native", "wasm32"}
    /\ program = "main" => target_arch = "native"
    /\ available_parallelism \in 0..MaxCores
    /\ base_numbers \in OperandLists
    /\ n_workers > 1 => base_numbers \in TwoOperands \cup RacedOperands
    /\ n_workers > 2 => base_numbers \in TwoOperands
    /\ pc = "seeded"
    /\ combine_chan = <<[i \in 1..Len(base_numbers) |-> From(base_numbers[i])]>>
    /\ result_chan = <<>>
    /\ seen = {}
    /\ results = <<>>
    /\ workers = <<>>
    /\ aggregator = "unspawned"
    /\ solved = <<>>
    /\ raced = 0
    /\ published = <<>>
    /\ expanded = <<>>

env == <<program, target_arch, available_parallelism, base_numbers>>

Finished(w) == workers[w].pc \in {"done", "panicked"}

\* worker w has passed the seen set and has calls of operate still to make
MidExpansion(w) == workers[w].pc = "combine"

(***************************************************************************)
(* The history the properties read: what was sent to result_tx, and which  *)
(* lists combine was called on.                                            *)
(***************************************************************************)
\* published after the Numbers of sent are sent
Publish(pub, sent) ==
    LET amounts == {sent[i].value : i \in DOMAIN sent}
        lens(k) == {len(sent[i]) : i \in {j \in DOMAIN sent : sent[j].value = k}}
                       \cup (IF k \in DOMAIN pub THEN {pub[k]} ELSE {})
    IN  [k \in DOMAIN pub \cup amounts |->
            CHOOSE l \in lens(k) : \A m \in lens(k) : l <= m]

\* expanded after one more call of combine on a list of these values
Count(bag, values) ==
    [v \in DOMAIN bag \cup {values} |->
        IF v = values
        THEN IF v \in DOMAIN bag THEN bag[v] + 1 ELSE 1
        ELSE bag[v]]

(***************************************************************************)
(* The calling thread in all_combinations, native build.                   *)
(***************************************************************************)
\* lib.rs:338-355: the workers and the result worker are spawned
Spawn ==
    /\ pc = "seeded"
    /\ target_arch = "native"
    /\ workers' = [w \in 1..n_workers |-> Idle]
    /\ aggregator' = "recv"
    /\ pc' = "spawned"
    /\ UNCHANGED <<env, combine_chan, result_chan, seen, results, solved, raced, published,
                   expanded>>

\* lib.rs:356-357: drop(combine_tx); drop(result_tx)
Drop ==
    /\ pc = "spawned"
    /\ pc' = "dropped"
    /\ UNCHANGED <<env, combine_chan, result_chan, seen, results, workers,
                   aggregator, solved, raced, published,
                   expanded>>

\* lib.rs:359-364: every worker is joined; a panicked one makes unwrap panic
Join ==
    /\ pc = "dropped"
    /\ \A w \in DOMAIN workers : Finished(w)
    /\ aggregator = "done"
    /\ pc' = IF \E w \in DOMAIN workers : workers[w].pc = "panicked"
             THEN "panicked" ELSE "returned"
    /\ UNCHANGED <<env, combine_chan, result_chan, seen, results, workers,
                   aggregator, solved, raced, published,
                   expanded>>

(***************************************************************************)
(* combination_worker (lib.rs:229-255, main.rs:195-220).                   *)
(***************************************************************************)
\* where the loop starts again: recv_timeout, or js_worker's result_worker
\* the loop of js_worker as it would be with result_worker called before
\* the loop only: C20 tells it apart
LoopStartNoDrain == IF target_arch = "wasm32" THEN "try_recv" ELSE "recv"

LoopStart == IF target_arch = "wasm32" THEN "drain" ELSE "recv"

\* rx.recv_timeout(5ms) is Ok
Recv(w) ==
    /\ workers[w].pc = "recv"
    /\ combine_chan # <<>>
    /\ workers' = [workers EXCEPT ![w] =
                      [pc |-> "gate", elements |-> Head(combine_chan),
                       pair |-> 0]]
    /\ combine_chan' = Tail(combine_chan)
    /\ UNCHANGED <<env, pc, result_chan, seen, results, aggregator, solved, raced, published,
                   expanded>>

\* a wait that gives up on a channel that is not empty: C8 tells it apart
SpuriousTimeout(chan) == chan = chan

\* recv() in place of recv_timeout(): C10 tells it apart
BlockingRecv(chan) == chan # chan

\* rx.recv_timeout(5ms) is Err: the channel stayed empty for the whole wait
TimedOut(chan) == chan = <<>>

Timeout(w) ==
    /\ workers[w].pc = "recv"
    /\ TimedOut(combine_chan)
    /\ workers' = [workers EXCEPT ![w] = [Idle EXCEPT !.pc = "done"]]
    /\ raced' = LET mid == {v \in DOMAIN workers : v # w /\ MidExpansion(v)}
                 lens == {raced} \cup {Len(workers[v].elements) : v \in mid}
             IN  CHOOSE m \in lens : \A l \in lens : l <= m
    /\ UNCHANGED <<env, pc, combine_chan, result_chan, seen, results,
                   aggregator, solved, published, expanded>>

\* the locked block: set.insert(values), and continue when it was there
MarkSeen(set, values) == set \cup {values}

AlreadySeen(set, values) == values \in set

Gate(w) ==
    /\ workers[w].pc = "gate"
    /\ LET values == SeenKey(workers[w].elements)
       IN  /\ seen' = MarkSeen(seen, values)
           /\ workers' = [workers EXCEPT ![w] =
                 IF AlreadySeen(seen, values) \/ Len(workers[w].elements) < 2
                 THEN [Idle EXCEPT !.pc = LoopStart]
                 ELSE [@ EXCEPT !.pc = "combine", !.pair = 1]]
           /\ expanded' =
                 IF AlreadySeen(seen, values) \/ Len(workers[w].elements) < 2
                 THEN expanded
                 ELSE Count(expanded, Values(workers[w].elements))
    /\ UNCHANGED <<env, pc, combine_chan, result_chan, results, aggregator,
                   solved, raced, published>>

\* the calls as they would be if a call without a value ended them as a
\* panic does: C19 tells it apart
ThenEndsAtNone(out, rest) ==
    IF out.panic \/ out.sent = <<>> THEN out
    ELSE [panic |-> rest.panic,
          sent |-> out.sent \o rest.sent,
          pushed |-> out.pushed \o rest.pushed]

\* what a call of operate and the calls after it send; a panic ends them
Then(out, rest) ==
    IF out.panic THEN out
    ELSE [panic |-> rest.panic,
          sent |-> out.sent \o rest.sent,
          pushed |-> out.pushed \o rest.pushed]

\* combine: one turn of its loop, the six calls of operate for one pair
\* (from the call number `call` on)
RECURSIVE PairCalls(_, _, _, _)
PairCalls(elements, pair, call, overflow_checks) ==
    IF call > Len(Calls)
    THEN [panic |-> FALSE, sent |-> <<>>, pushed |-> <<>>]
    ELSE CHOOSE all \in
           {Then(out, rest) :
               out \in {CombineCall(elements, pair, call, overflow_checks)},
               rest \in {PairCalls(elements, pair, call + 1,
                                   overflow_checks)}} : TRUE

NextPair(wk) ==
    IF wk.pair < Len(Pairs(Len(wk.elements)))
    THEN [wk EXCEPT !.pair = wk.pair + 1]
    ELSE [Idle EXCEPT !.pc = LoopStart]

Combine(w) ==
    /\ workers[w].pc = "combine"
    /\ \E overflow_checks \in BOOLEAN :
       \E out \in {PairCalls(workers[w].elements, workers[w].pair, 1,
                             overflow_checks)} :
         LET wk == workers[w]
         IN  /\ result_chan' = result_chan \o out.sent
             /\ combine_chan' = combine_chan \o out.pushed
             /\ published' = Publish(published, out.sent)
             /\ workers' = [workers EXCEPT ![w] =
                   IF out.panic
                   THEN [Idle EXCEPT !.pc = "panicked"]
                   ELSE NextPair(wk)]
             \* a panic in js_worker is a panic of the calling thread
             /\ pc' = IF out.panic /\ target_arch = "wasm32"
                      THEN "panicked" ELSE pc
    /\ UNCHANGED <<env, seen, results, aggregator, solved, raced, expanded>>

(***************************************************************************)
(* result_worker, blocking (lib.rs:184-210, main.rs:156-176).              *)
(***************************************************************************)
\* rtx.recv() is Ok(value)
ResultRecv ==
    /\ aggregator = "recv"
    /\ result_chan # <<>>
    /\ results' = Merge(results, Head(result_chan))
    /\ result_chan' = Tail(result_chan)
    /\ UNCHANGED <<env, pc, combine_chan, seen, workers, aggregator, solved, raced, published,
                   expanded>>

\* the channel closed as soon as the caller drops its result_tx: C9 tells
\* it apart
DisconnectedEarly == pc # "spawned"

\* every result_tx is dropped: the caller's, and each worker's when it ends
Disconnected == pc # "spawned" /\ \A w \in DOMAIN workers : Finished(w)

\* rtx.recv() is Err: the channel is empty and every sender is dropped
ResultClosed ==
    /\ aggregator = "recv"
    /\ result_chan = <<>>
    /\ Disconnected
    /\ aggregator' = "done"
    /\ UNCHANGED <<env, pc, combine_chan, result_chan, seen, results, workers,
                   solved, raced, published,
                   expanded>>

(***************************************************************************)
(* js_worker (lib.rs:279-307), run by the calling thread on wasm32.        *)
(***************************************************************************)
\* lib.rs:332-333
JsStart ==
    /\ pc = "seeded"
    /\ target_arch = "wasm32"
    /\ workers' = <<[Idle EXCEPT !.pc = "drain"]>>
    /\ pc' = "js"
    /\ UNCHANGED <<env, combine_chan, result_chan, seen, results, aggregator,
                   solved, raced, published,
                   expanded>>

\* result_worker(.., false): every value of the channel is merged
JsDrain ==
    /\ pc = "js"
    /\ workers[1].pc = "drain"
    /\ results' = MergeAll(results, result_chan)
    /\ result_chan' = <<>>
    /\ workers' = [workers EXCEPT ![1].pc = "try_recv"]
    /\ UNCHANGED <<env, pc, combine_chan, seen, aggregator, solved, raced, published,
                   expanded>>

\* rx.try_recv() is Ok(elements)
JsRecv ==
    /\ pc = "js"
    /\ workers[1].pc = "try_recv"
    /\ combine_chan # <<>>
    /\ workers' = [workers EXCEPT ![1] =
                      [pc |-> "gate", elements |-> Head(combine_chan),
                       pair |-> 0]]
    /\ combine_chan' = Tail(combine_chan)
    /\ UNCHANGED <<env, pc, result_chan, seen, results, aggregator, solved, raced, published,
                   expanded>>

\* rx.try_recv() is Err: js_worker returns, and all_combinations with it
JsReturn ==
    /\ pc = "js"
    /\ workers[1].pc = "try_recv"
    /\ combine_chan = <<>>
    /\ workers' = [workers EXCEPT ![1] = [Idle EXCEPT !.pc = "done"]]
    /\ pc' = "returned"
    /\ UNCHANGED <<env, combine_chan, result_chan, seen, results, aggregator,
                   solved, raced, published,
                   expanded>>

(***************************************************************************)
(* solve (lib.rs:369-383): the lookup in the table all_combinations        *)
(* returned. Probe is the loop from offset i on.                           *)
(***************************************************************************)
\* the loop as main.rs writes it, `to_find - i` before `to_find + i`: C4
\* tells it apart
RECURSIVE ProbeBelowFirst(_, _, _, _)
ProbeBelowFirst(table, to_find, approximation, i) ==
    IF i >= approximation + 1 THEN <<>>
    ELSE IF to_find - i \in DOMAIN table THEN <<table[to_find - i]>>
    ELSE IF to_find + i \in DOMAIN table THEN <<table[to_find + i]>>
    ELSE ProbeBelowFirst(table, to_find, approximation, i + 1)

\* the loop as it would be over 0..approximation: C5 tells it apart
RECURSIVE ProbeShort(_, _, _, _)
ProbeShort(table, to_find, approximation, i) ==
    IF i >= approximation THEN <<>>
    ELSE IF to_find + i \in DOMAIN table THEN <<table[to_find + i]>>
    ELSE IF to_find - i \in DOMAIN table THEN <<table[to_find - i]>>
    ELSE ProbeShort(table, to_find, approximation, i + 1)

RECURSIVE Probe(_, _, _, _)
Probe(table, to_find, approximation, i) ==
    IF i >= approximation + 1 THEN <<>>
    ELSE IF to_find + i \in DOMAIN table THEN <<table[to_find + i]>>
    ELSE IF to_find - i \in DOMAIN table THEN <<table[to_find - i]>>
    ELSE Probe(table, to_find, approximation, i + 1)

Lookup(table, to_find, approximation) == Probe(table, to_find, approximation, 0)

Solve ==
    /\ pc = "returned"
    /\ program = "lib"
    /\ \E to_find \in Targets, approximation \in Approximations :
          solved' = <<[to_find |-> to_find, approximation |-> approximation,
                       result |-> Lookup(results, to_find, approximation)]>>
    /\ pc' = "solved"
    /\ UNCHANGED <<env, combine_chan, result_chan, seen, results, workers,
                   aggregator, raced, published,
                   expanded>>

Next ==
    \/ Spawn
    \/ Drop
    \/ Join
    \/ \E w \in DOMAIN workers :
          \/ (target_arch = "native" /\ Recv(w))
          \/ (target_arch = "native" /\ Timeout(w))
          \/ Gate(w)
          \/ Combine(w)
    \/ ResultRecv
    \/ ResultClosed
    \/ JsStart
    \/ JsDrain
    \/ JsRecv
    \/ JsReturn
    \/ Solve

Spec == Init /\ [][Next]_vars

(***************************************************************************)
(* The threads, and the specification with the fairness of a scheduler     *)
(* that lets every thread that can take a step take one.                   *)
(***************************************************************************)
Caller ==
    \/ Spawn
    \/ Drop
    \/ Join
    \/ JsStart
    \/ JsDrain
    \/ JsRecv
    \/ JsReturn
    \/ (pc = "js" /\ (Gate(1) \/ Combine(1)))

Worker(w) ==
    /\ target_arch = "native"
    /\ w \in DOMAIN workers
    /\ (Recv(w) \/ Timeout(w) \/ Gate(w) \/ Combine(w))

Aggregator == ResultRecv \/ ResultClosed

\* the most workers a run starts
MaxExplorers == Max(4, MaxCores) - 1

\* the runs of Init, the lists of three operands run by two workers being
\* those of equal operands
FairInit ==
    /\ Init
    /\ n_workers > 1 => base_numbers \in TwoOperands \cup {<<1, 1, 1>>}

FairSpec ==
    /\ FairInit
    /\ [][Next]_vars
    /\ WF_vars(Caller)
    /\ WF_vars(Aggregator)
    /\ \A w \in 1..MaxExplorers : WF_vars(Worker(w))

(***************************************************************************)
(* The runs on operands whose sums and products reach the width of i32.    *)
(***************************************************************************)
\* 46340 * 46340 and 65536 * 32767 fit an i32; 46341 * 46341, 65536 * 65536
\* and the sums of I32Max do not
OverflowOperands ==
    {<<I32Max, 1>>, <<I32Max, I32Max>>, <<65536, 65536>>, <<46341, 46341>>,
     <<46340, 46340>>, <<65536, 32767>>, <<65536, 65536, 1>>}

OverflowInit ==
    /\ program \in {"lib", "main"}
    /\ target_arch \in {"native", "wasm32"}
    /\ program = "main" => target_arch = "native"
    /\ available_parallelism \in 0..MaxCores
    /\ base_numbers \in OverflowOperands
    /\ n_workers > 1 => Len(base_numbers) = 2
    /\ pc = "seeded"
    /\ combine_chan = <<[i \in 1..Len(base_numbers) |-> From(base_numbers[i])]>>
    /\ result_chan = <<>>
    /\ seen = {}
    /\ results = <<>>
    /\ workers = <<>>
    /\ aggregator = "unspawned"
    /\ solved = <<>>
    /\ raced = 0
    /\ published = <<>>
    /\ expanded = <<>>

SpecOverflow == OverflowInit /\ [][Next]_vars

(***************************************************************************)
(* The runs on four operands, with at most one combination worker: their   *)
(* lists of three hold Numbers made by an operation next to operands of    *)
(* the same value.                                                         *)
(***************************************************************************)
FourOperands == {<<1, 1, 1, 1>>, <<1, 1, 2, 1>>}

FourInit ==
    /\ program \in {"lib", "main"}
    /\ target_arch \in {"native", "wasm32"}
    /\ program = "main" => target_arch = "native"
    /\ available_parallelism \in 0..MaxCores
    /\ base_numbers \in FourOperands
    /\ n_workers <= 1
    /\ pc = "seeded"
    /\ combine_chan = <<[i \in 1..Len(base_numbers) |-> From(base_numbers[i])]>>
    /\ result_chan = <<>>
    /\ seen = {}
    /\ results = <<>>
    /\ workers = <<>>
    /\ aggregator = "unspawned"
    /\ solved = <<>>
    /\ raced = 0
    /\ published = <<>>
    /\ expanded = <<>>

SpecFour == FourInit /\ [][Next]_vars

(***************************************************************************)
(* The runs on four operands with up to two combination workers (main.rs   *)
(* on three cores), under one schedule among those the threads allow: the  *)
(* caller drops its senders before a worker moves, the result worker        *)
(* receives once the workers have ended, and worker 2 runs only while      *)
(* worker 1 is held between recv_timeout and the lock of the seen set      *)
(* with a list of two Numbers. Every run of SpecRace is a run of the       *)
(* program; it is used to reach states, not to show that none exists.      *)
(***************************************************************************)
RaceOperands == {<<1, 1, 2, 1>>}

RaceInit ==
    /\ program \in {"lib", "main"}
    /\ target_arch \in {"native", "wasm32"}
    /\ program = "main" => target_arch = "native"
    /\ available_parallelism \in 0..MaxCores
    /\ base_numbers \in RaceOperands
    /\ n_workers <= 2
    /\ pc = "seeded"
    /\ combine_chan = <<[i \in 1..Len(base_numbers) |-> From(base_numbers[i])]>>
    /\ result_chan = <<>>
    /\ seen = {}
    /\ results = <<>>
    /\ workers = <<>>
    /\ aggregator = "unspawned"
    /\ solved = <<>>
    /\ raced = 0
    /\ published = <<>>
    /\ expanded = <<>>

\* worker w has received a list of two and has not locked the seen set yet
Preempted(w) ==
    workers[w].pc = "gate" /\ Len(workers[w].elements) = 2

RaceSchedule ==
    target_arch = "native" =>
       /\ (workers # <<>> /\ workers' # workers) => pc = "dropped"
       /\ (results' # results \/ aggregator' # aggregator) =>
             \A w \in DOMAIN workers : Finished(w)
       /\ (Len(workers) = 2 /\ workers'[2] # workers[2]) =>
             (Preempted(1) \/ Finished(1))
       /\ (Len(workers) = 2 /\ workers[1].pc = "gate"
              /\ workers'[1] # workers[1]) =>
             (workers[2].pc = "recv" \/ Finished(2))

RaceNext ==
    \/ Spawn /\ RaceSchedule
    \/ Drop /\ RaceSchedule
    \/ Join /\ RaceSchedule
    \/ \E w \in DOMAIN workers :
          \/ (target_arch = "native" /\ Recv(w) /\ RaceSchedule)
          \/ (target_arch = "native" /\ Timeout(w) /\ RaceSchedule)
          \/ Gate(w) /\ RaceSchedule
          \/ Combine(w) /\ RaceSchedule
    \/ ResultRecv /\ RaceSchedule
    \/ ResultClosed /\ RaceSchedule
    \/ JsStart
    \/ JsDrain
    \/ JsRecv
    \/ JsReturn
    \/ Solve

SpecRace == RaceInit /\ [][RaceNext]_vars

(***************************************************************************)
(* The single-thread run as a function of the operands: js_worker's loop   *)
(* (lib.rs:285-306) and the table it leaves.                               *)
(***************************************************************************)
RECURSIVE AllPairs(_, _, _)
AllPairs(elements, pair, overflow_checks) ==
    IF pair > Len(Pairs(Len(elements)))
    THEN [panic |-> FALSE, sent |-> <<>>, pushed |-> <<>>]
    ELSE LET out == PairCalls(elements, pair, 1, overflow_checks)
         IN  IF out.panic THEN out
             ELSE LET rest == AllPairs(elements, pair + 1, overflow_checks)
                  IN  [panic |-> rest.panic,
                       sent |-> out.sent \o rest.sent,
                       pushed |-> out.pushed \o rest.pushed]

\* js_worker as it would be without its loop, one list expanded: C7 tells
\* it apart
js_worker_once(chan, set, overflow_checks) ==
    IF chan = <<>> THEN [panic |-> FALSE, sent |-> <<>>]
    ELSE LET out == AllPairs(Head(chan), 1, overflow_checks)
         IN  [panic |-> out.panic, sent |-> out.sent]

\* what js_worker sends to result_tx, in order, from the channel and the
\* seen set it is given until try_recv fails
RECURSIVE js_worker(_, _, _)
js_worker(chan, set, overflow_checks) ==
    IF chan = <<>> THEN [panic |-> FALSE, sent |-> <<>>]
    ELSE LET elements == Head(chan)
             values == SeenKey(elements)
         IN  IF AlreadySeen(set, values)
             THEN js_worker(Tail(chan), set, overflow_checks)
             ELSE LET out == AllPairs(elements, 1, overflow_checks)
                  IN  IF out.panic
                      THEN [panic |-> TRUE, sent |-> out.sent]
                      ELSE LET rest == js_worker(Tail(chan) \o out.pushed,
                                                 MarkSeen(set, values),
                                                 overflow_checks)
                           IN  [panic |-> rest.panic,
                                sent |-> out.sent \o rest.sent]

\* all_combinations on wasm32 (lib.rs:321-336): result_worker merges what
\* js_worker sent, in the order it was sent
SingleThread(numbers) ==
    MergeAll(<<>>,
             js_worker(<<[i \in 1..Len(numbers) |-> From(numbers[i])]>>, {},
                       FALSE).sent)

\* the action model of js_worker and the function agree
JsAgree ==
    (target_arch = "wasm32" /\ pc \in {"returned", "solved"})
        => results = SingleThread(base_numbers)

(***************************************************************************)
(* What the properties below speak of.                                     *)
(***************************************************************************)
Range(f) == {f[x] : x \in DOMAIN f}

\* the amounts a table has an entry for
Keys(table) == {k \in DOMAIN table : TRUE}

\* all_combinations has returned its table
Returned == pc \in {"returned", "solved"}

\* every Number of the state: in flight, held by a worker, stored, returned
AllNumbers ==
    UNION {Range(combine_chan[i]) : i \in DOMAIN combine_chan}
        \cup Range(result_chan)
        \cup UNION {Range(workers[w].elements) : w \in DOMAIN workers}
        \cup Range(results)
        \cup UNION {Range(solved[i].result) : i \in DOMAIN solved}

\* n and every Number of its derivation
RECURSIVE Nodes(_)
Nodes(n) ==
    IF n.parent = <<>> THEN {n}
    ELSE {n} \cup Nodes(n.parent[2]) \cup Nodes(n.parent[3])

\* the operation on two integers, in the integers; <<>> when it has no value
Exact(operation, x, y) ==
    CASE operation = "Addition" -> <<x + y>>
      [] operation = "Multiplication" -> <<x * y>>
      [] operation = "Subtraction" -> <<x - y>>
      [] operation = "Division" ->
            IF y > 0 /\ x % y = 0 THEN <<x \div y>>
            ELSE IF y < 0 /\ x % (-y) = 0 THEN <<-(x \div (-y))>>
            ELSE <<>>

\* the derivation of n evaluated from its leaves
RECURSIVE Eval(_)
Eval(n) ==
    IF n.parent = <<>> THEN <<n.value>>
    ELSE LET l == Eval(n.parent[2])
             r == Eval(n.parent[3])
         IN  IF l = <<>> \/ r = <<>> THEN <<>>
             ELSE Exact(n.parent[1], l[1], r[1])

\* the amounts the rules of the game allow from two amounts
Moves(x, y) ==
    {x + y, x * y}
        \cup (IF x > y THEN {x - y} ELSE {})
        \cup (IF y > x THEN {y - x} ELSE {})
        \cup (IF y > 0 /\ x % y = 0 THEN {x \div y} ELSE {})
        \cup (IF x > 0 /\ y % x = 0 THEN {y \div x} ELSE {})

\* the list without its elements i and j, and with v
Played(amounts, i, j, v) ==
    LET rest == [k \in 1..(Len(amounts) - 2) |->
                    IF k < i THEN amounts[k]
                    ELSE IF k + 1 < j THEN amounts[k + 1]
                    ELSE amounts[k + 2]]
    IN  Append(rest, v)

\* every amount some sequence of moves makes, each operand used at most once
RECURSIVE Reachable(_)
Reachable(amounts) ==
    IF Len(amounts) < 2 THEN {}
    ELSE UNION {
            UNION {{v} \cup Reachable(Played(amounts, p[1], p[2], v)) :
                      v \in Moves(amounts[p[1]], amounts[p[2]])} :
            p \in {q \in (1..Len(amounts)) \X (1..Len(amounts)) : q[1] < q[2]}}

Abs(x) == IF x < 0 THEN -x ELSE x

\* a list is left in the combine channel, a Number in the result channel,
\* or a reachable amount has no entry in the table
Incomplete ==
    \/ combine_chan # <<>>
    \/ result_chan # <<>>
    \/ \E x \in Reachable(base_numbers) : x \notin DOMAIN results

\* every thread has ended and all_combinations has returned
AllEnded ==
    /\ Returned
    /\ \A w \in DOMAIN workers : Finished(w)
    /\ aggregator # "recv"

(***************************************************************************)
(* C1: when all_combinations returns, the keys of the result table are     *)
(* exactly the amounts reachable from the operands by the rules of the     *)
(* game.                                                                   *)
(***************************************************************************)
C1_ReachableTable ==
    Returned => Keys(results) = Reachable(base_numbers)

C3_PositiveAmounts ==
    \A n \in AllNumbers : \A m \in Nodes(n) :
        /\ m.value >= 1
        /\ (m.parent # <<>> /\ m.parent[1] = "Subtraction")
              => /\ m.parent[2].value > m.parent[3].value
                 /\ m.value = m.parent[2].value - m.parent[3].value
        /\ (m.parent # <<>> /\ m.parent[1] = "Division")
              => /\ m.parent[3].value > 0
                 /\ m.parent[2].value = m.value * m.parent[3].value

\* the table holds a difference and a quotient, and 1 - 1 made nothing
C3_Witness ==
    /\ Returned
    /\ \E k \in DOMAIN results :
          results[k].parent # <<>> /\ results[k].parent[1] = "Subtraction"
    /\ \E k \in DOMAIN results :
          results[k].parent # <<>> /\ results[k].parent[1] = "Division"

(***************************************************************************)
(* C4: solve returns the entry of the key closest to the target within     *)
(* the approximation, and the key above the target when one above and one  *)
(* below are as close; with approximation 0 only the target itself.        *)
(***************************************************************************)
C4_ClosestAbovePreferred ==
    \A i \in DOMAIN solved :
        LET t == solved[i].to_find
            a == solved[i].approximation
            r == solved[i].result
        IN  r # <<>> =>
               LET v == r[1].value
                   d == Abs(v - t)
               IN  /\ d <= a
                   /\ v \in DOMAIN results
                   /\ r[1] = results[v]
                   /\ \A k \in DOMAIN results : Abs(k - t) >= d
                   /\ (t + d) \in DOMAIN results => v = t + d
                   /\ a = 0 => v = t

\* a key above and a key below the target are as close, and none is closer
C4_Witness ==
    \E i \in DOMAIN solved :
        LET t == solved[i].to_find
            r == solved[i].result
        IN  /\ r # <<>>
            /\ r[1].value > t
            /\ (t - (r[1].value - t)) \in DOMAIN results

(***************************************************************************)
(* C5: solve returns None exactly when the table has no key within the     *)
(* approximation of the target; [1, 1] with target 5 and approximation 0,  *)
(* and [3, 7] with target 100 and approximation 2, give None.              *)
(***************************************************************************)
C5_NotFound ==
    \A i \in DOMAIN solved :
        LET t == solved[i].to_find
            a == solved[i].approximation
            r == solved[i].result
        IN  /\ r = <<>> <=> ~ \E k \in DOMAIN results : Abs(k - t) <= a
            /\ (base_numbers = <<1, 1>> /\ t = 5 /\ a = 0) => r = <<>>
            /\ (base_numbers = <<3, 7>> /\ t = 100 /\ a = 2) => r = <<>>

\* [1, 1] reached 1 and 2 only, and 5 is not found
C5_Witness ==
    /\ base_numbers = <<1, 1>>
    /\ DOMAIN results = {1, 2}
    /\ \E i \in DOMAIN solved :
          /\ solved[i].to_find = 5
          /\ solved[i].approximation = 0
          /\ solved[i].result = <<>>

(***************************************************************************)
(* C6: a step never removes a key of the table, and changes the entry of   *)
(* a key only to a Number of that value, taken from the result channel,    *)
(* that is strictly shorter.                                               *)
(***************************************************************************)
C6_ShorterWins ==
    [][\A k \in DOMAIN results :
          /\ k \in DOMAIN results'
          /\ \/ results'[k] = results[k]
             \/ /\ len(results'[k]) < len(results[k])
                /\ results'[k].value = k
                /\ results'[k] \in Range(result_chan)]_vars

\* the next Number the result worker receives is shorter than the entry
C6_Witness ==
    /\ aggregator = "recv"
    /\ result_chan # <<>>
    /\ Head(result_chan).value \in DOMAIN results
    /\ len(Head(result_chan)) < len(results[Head(result_chan).value])

(***************************************************************************)
(* C7: the amounts of the table the threads leave are amounts of the       *)
(* table the single-thread run leaves.                                     *)
(***************************************************************************)
C7_SubsetOfSingleThread ==
    (target_arch = "native" /\ Returned)
        => Keys(results) \subseteq Keys(SingleThread(base_numbers))

\* two workers have run on three operands, one of them past a timeout
C7_Witness ==
    /\ target_arch = "native"
    /\ Returned
    /\ n_workers >= 2
    /\ Len(base_numbers) = 3
    /\ results # <<>>

(***************************************************************************)
(* C8: with at least one worker and at most 5 operands, the amounts of the *)
(* table the threads leave are exactly those of the single-thread run.     *)
(***************************************************************************)
C8_EqualToSingleThread ==
    (target_arch = "native" /\ Returned /\ n_workers >= 1
          /\ Len(base_numbers) <= 5)
        => Keys(results) = Keys(SingleThread(base_numbers))

\* a worker timed out while another was combining, and the run has returned
C8_Witness ==
    /\ target_arch = "native"
    /\ Returned
    /\ n_workers >= 2
    /\ raced > 0

(***************************************************************************)
(* C9.  As claimed: once a worker has timed out while another was in the   *)
(* middle of combine, the search returns with a state left in the channel  *)
(* or a reachable amount missing from the table.                           *)
(***************************************************************************)
C9_RacyStopLosesResults ==
    (target_arch = "native" /\ Returned /\ raced > 0) => Incomplete

(***************************************************************************)
(* C9, amended: a worker may time out while another is in the middle of    *)
(* combine, but the search still returns with both channels empty and      *)
(* every reachable amount in the table.                                    *)
(***************************************************************************)
C9_RacyStopIsComplete ==
    (target_arch = "native" /\ Returned /\ raced > 0) => ~Incomplete

\* a worker timed out while another was combining a list of three
C9_Witness ==
    /\ target_arch = "native"
    /\ Returned
    /\ raced >= 3

(***************************************************************************)
(* C10: under fair scheduling every worker and the result worker end, and  *)
(* all_combinations returns.                                               *)
(***************************************************************************)
C10_Terminates == <>AllEnded

\* three workers and the result worker have ended
C10_Witness ==
    /\ AllEnded
    /\ n_workers >= 3

(***************************************************************************)
(* C11: when all_combinations returns from the threads, the result channel *)
(* is empty and every amount that was sent to it has an entry at most as   *)
(* long as the shortest Number sent with that amount; and the result       *)
(* worker has not ended while a combination worker could still send or a   *)
(* Number was still in the channel.                                        *)
(***************************************************************************)
C11_Drained ==
    /\ (target_arch = "native" /\ Returned) =>
          /\ result_chan = <<>>
          /\ \A k \in DOMAIN published :
                /\ k \in DOMAIN results
                /\ len(results[k]) <= published[k]
    /\ (target_arch = "native" /\ aggregator = "done") =>
          /\ \A w \in DOMAIN workers : Finished(w)
          /\ result_chan = <<>>

\* two workers have sent Numbers of two operations, and the run has returned
C11_Witness ==
    /\ target_arch = "native"
    /\ Returned
    /\ n_workers >= 2
    /\ \E k \in DOMAIN published : published[k] >= 2

(***************************************************************************)
(* C12: whatever available_parallelism reports, a combination worker is    *)
(* started (or js_worker runs), and the table returned for two operands or *)
(* more is not empty.                                                      *)
(***************************************************************************)
C12_FloorOfOne ==
    /\ pc # "seeded" => Len(workers) >= 1
    /\ (Returned /\ Len(base_numbers) >= 2) => results # <<>>

(***************************************************************************)
(* C13: an addition whose sum does not fit an i32 makes no Number: every   *)
(* sum in the state  is the sum of its two operands, and no thread panics. *)
(***************************************************************************)
C13_AdditionGuarded ==
    /\ pc # "panicked"
    /\ \A w \in DOMAIN workers : workers[w].pc # "panicked"
    /\ \A n \in AllNumbers : \A m \in Nodes(n) :
          (/\ m.parent # <<>>
           /\ m.parent[1] = "Addition"
           /\ m.parent[2].value > 0
           /\ m.parent[3].value > 0)
              => /\ m.value > m.parent[2].value
                 /\ m.value - m.parent[2].value = m.parent[3].value

(***************************************************************************)
(* C14: a multiplication makes a Number exactly when the product of its    *)
(* operands fits an i32, and the Number's value is that product. The       *)
(* product is taken here by doubling, -1 standing for "does not fit".      *)
(***************************************************************************)
SatAdd(x, y) == IF x = -1 \/ y = -1 \/ x > I32Max - y THEN -1 ELSE x + y

RECURSIVE SatMul(_, _)
SatMul(x, y) ==
    IF y = 0 THEN 0
    ELSE CHOOSE product \in
           {IF y % 2 = 0 THEN SatAdd(half, half)
            ELSE SatAdd(SatAdd(half, half), x) :
               half \in {SatMul(x, y \div 2)}} : TRUE

C14_MultiplicationFits ==
    /\ \A w \in DOMAIN workers : workers[w].pc = "combine" =>
          \A i, j \in DOMAIN workers[w].elements :
             LET a == workers[w].elements[i].value
                 b == workers[w].elements[j].value
             IN  (i < j /\ a > 0 /\ b > 0) =>
                    Multiplication(a, b) =
                       [panic |-> FALSE,
                        value |-> IF SatMul(a, b) = -1 THEN <<>>
                                  ELSE <<SatMul(a, b)>>]
    /\ \A n \in AllNumbers : \A m \in Nodes(n) :
          (/\ m.parent # <<>>
           /\ m.parent[1] = "Multiplication"
           /\ m.parent[2].value > 0
           /\ m.parent[3].value > 0)
              => m.value = SatMul(m.parent[2].value, m.parent[3].value)
    /\ (Returned /\ Len(base_numbers) = 2 /\ results # <<>>) =>
          LET p == SatMul(base_numbers[1], base_numbers[2])
          IN  /\ p # -1 => p \in DOMAIN results
              /\ p = -1 => \A k \in DOMAIN results :
                    results[k].parent[1] # "Multiplication"

\* 65536 * 65536 is 2^32: no product, and not the wrapped product 0 either
C14_Witness ==
    /\ Returned
    /\ base_numbers = <<65536, 65536>>
    /\ DOMAIN results = {131072, 1}

(***************************************************************************)
(* C15: the gate lets each multiset of values through once. expanded       *)
(* counts, per list of values, the calls of combine on it: no list is      *)
(* counted twice, no two lists counted hold the same values in another     *)
(* order, and the seen set never loses a key.                              *)
(***************************************************************************)
Occurrences(values, x) == Cardinality({i \in DOMAIN values : values[i] = x})

SameAmounts(u, v) ==
    /\ Len(u) = Len(v)
    /\ \A x \in Range(u) \cup Range(v) : Occurrences(u, x) = Occurrences(v, x)

ExpandedOnce ==
    /\ \A v \in DOMAIN expanded : expanded[v] = 1
    /\ \A u, v \in DOMAIN expanded : SameAmounts(u, v) => u = v
    /\ \A v \in DOMAIN expanded : \E key \in seen : SameAmounts(key, v)

C15_ExpandedOnce == []ExpandedOnce /\ [][seen \subseteq seen']_vars

\* two explorers hold lists of the same values at the gate, neither seen yet
C15_Witness ==
    \E w1, w2 \in DOMAIN workers :
       /\ w1 # w2
       /\ workers[w1].pc = "gate"
       /\ workers[w2].pc = "gate"
       /\ Len(workers[w1].elements) >= 2
       /\ SameAmounts(Values(workers[w1].elements),
                      Values(workers[w2].elements))
       /\ \A key \in seen : ~SameAmounts(key, Values(workers[w1].elements))

(***************************************************************************)
(* C16: the list an operation pushes is the list it was called on without  *)
(* its two operands, followed by the Number it made. For a worker in       *)
(* combine, the lists the calls of its current pair push are compared with *)
(* the worker's list less the two Numbers at the pair's positions, Number  *)
(* by Number (value and derivation) and whatever the order.                *)
(***************************************************************************)
RECURSIVE Without(_, _, _)
Without(elements, i, j) ==
    IF elements = <<>> THEN <<>>
    ELSE LET n == Len(elements)
             front == Without(SubSeq(elements, 1, n - 1), i, j)
         IN  IF n = i \/ n = j THEN front ELSE Append(front, elements[n])

C16_RemovesItsOperands ==
    \A w \in DOMAIN workers : workers[w].pc = "combine" =>
       \A overflow_checks \in BOOLEAN :
          LET elements == workers[w].elements
              p == Pairs(Len(elements))[workers[w].pair]
              out == PairCalls(elements, workers[w].pair, 1, overflow_checks)
          IN  \A c \in DOMAIN out.pushed :
                 LET child == out.pushed[c]
                     value == child[Len(child)]
                 IN  /\ {value.parent[2], value.parent[3]}
                           = {elements[p[1]], elements[p[2]]}
                     /\ \A n \in Range(elements) \cup Range(child) :
                           Occurrences(SubSeq(child, 1, Len(child) - 1), n)
                              = Occurrences(Without(elements, p[1], p[2]), n)

(***************************************************************************)
(* C17: an operation that has a value always sends its Number to the       *)
(* results, and pushes a list only when it was called on more than two     *)
(* Numbers; the list pushed is one shorter and ends with that Number, and  *)
(* no list of fewer than two Numbers is in the channel. On two Numbers     *)
(* only Numbers of length 1 are sent: [5, 5] solved for 10 gives 5 + 5.    *)
(***************************************************************************)
PublishesAndPushes ==
    \A w \in DOMAIN workers : workers[w].pc = "combine" =>
       LET elements == workers[w].elements
           out == PairCalls(elements, workers[w].pair, 1, FALSE)
       IN  /\ Len(out.pushed) = IF Len(elements) > 2 THEN Len(out.sent) ELSE 0
           /\ \A c \in DOMAIN out.pushed :
                 /\ Len(out.pushed[c]) = Len(elements) - 1
                 /\ out.pushed[c][Len(elements) - 1] = out.sent[c]

NoShortList ==
    /\ \A i \in DOMAIN combine_chan : Len(combine_chan[i]) >= 2
    /\ \A w \in DOMAIN workers :
          workers[w].pc \in {"gate", "combine"} =>
             Len(workers[w].elements) >= 2

FromTwoLengthOne ==
    \A w \in DOMAIN workers :
       (workers[w].pc = "combine" /\ Len(workers[w].elements) = 2) =>
          LET out == PairCalls(workers[w].elements, workers[w].pair, 1, FALSE)
          IN  \A i \in DOMAIN out.sent : len(out.sent[i]) = 1

FiveAndFive ==
    \A i \in DOMAIN solved :
       (base_numbers = <<5, 5>> /\ solved[i].to_find = 10) =>
          solved[i].result =
             <<[value |-> 10,
                parent |-> <<"Addition", From(5), From(5)>>]>>

C17_PublishAlwaysPushAboveTwo ==
    /\ PublishesAndPushes
    /\ NoShortList
    /\ FromTwoLengthOne
    /\ FiveAndFive

(***************************************************************************)
(* C18: a step of combine takes the next pair of positions i < j, in the   *)
(* order (1,2), (1,3), .., (2,3), .., each once, and sends for it a + b,   *)
(* a * b, a - b, b - a, a / b, b / a in this order (those that have a      *)
(* value), to the results and, each at the end of its list, to the         *)
(* channel.                                                                *)
(***************************************************************************)
\* the number of pairs i < j that come before <<i, j>>
Rank(i, j, n) ==
    Cardinality({q \in (1..n) \X (1..n) :
                    /\ q[1] < q[2]
                    /\ q[1] < i \/ (q[1] = i /\ q[2] < j)})

PairAt(n, k) ==
    CHOOSE q \in (1..n) \X (1..n) : q[1] < q[2] /\ Rank(q[1], q[2], n) = k - 1

Made(operation, a, b, amount) ==
    [value |-> amount, parent |-> <<operation, a, b>>]

Six(a, b) ==
    <<Made("Addition", a, b, a.value + b.value)>>
    \o <<Made("Multiplication", a, b, a.value * b.value)>>
    \o (IF a.value > b.value
        THEN <<Made("Subtraction", a, b, a.value - b.value)>> ELSE <<>>)
    \o (IF b.value > a.value
        THEN <<Made("Subtraction", b, a, b.value - a.value)>> ELSE <<>>)
    \o (IF b.value > 0 /\ a.value % b.value = 0
        THEN <<Made("Division", a, b, a.value \div b.value)>> ELSE <<>>)
    \o (IF a.value > 0 /\ b.value % a.value = 0
        THEN <<Made("Division", b, a, b.value \div a.value)>> ELSE <<>>)

SixInOrder(w) ==
    LET elements == workers[w].elements
        n == Len(elements)
        k == workers[w].pair
        q == PairAt(n, k)
        six == Six(elements[q[1]], elements[q[2]])
        before == Len(combine_chan)
    IN  /\ result_chan' = result_chan \o six
        /\ IF n > 2
           THEN /\ Len(combine_chan') = before + Len(six)
                /\ \A c \in DOMAIN six :
                      combine_chan'[before + c][n - 1] = six[c]
           ELSE combine_chan' = combine_chan
        /\ IF 2 * k < n * (n - 1)
           THEN workers'[w] = [workers[w] EXCEPT !.pair = k + 1]
           ELSE workers'[w].pc # "combine"

C18_SixInOrder ==
    [][\A w \in DOMAIN workers :
          (/\ workers[w].pc = "combine"
           /\ w \in DOMAIN workers'
           /\ workers'[w] # workers[w]) => SixInOrder(w)]_vars

\* [6, 2, 2]: the first pair sent 6 + 2, 6 * 2, 6 - 2 and 6 / 2, and the
\* worker is on to the second pair
C18_Witness ==
    /\ base_numbers = <<6, 2, 2>>
    /\ Values(result_chan) = <<8, 12, 4, 3>>
    /\ \E w \in DOMAIN workers :
          /\ workers[w].pc = "combine"
          /\ workers[w].pair = 2
          /\ Len(workers[w].elements) = 3

(***************************************************************************)
(* C19: an operation that has no value (a - b with a <= b, a / b with a    *)
(* remainder, a * b that does not fit) sends nothing and changes nothing,  *)
(* and the operations after it are still made: a step of combine on a      *)
(* pair whose sum fits sends exactly the values of the operations that     *)
(* have one, in order, and leaves the seen set, the table and the          *)
(* worker's list as they were.                                             *)
(***************************************************************************)
Amounts(x, y) ==
    <<x + y>>
    \o (IF SatMul(x, y) # -1 THEN <<SatMul(x, y)>> ELSE <<>>)
    \o (IF x > y THEN <<x - y>> ELSE <<>>)
    \o (IF y > x THEN <<y - x>> ELSE <<>>)
    \o (IF x % y = 0 THEN <<x \div y>> ELSE <<>>)
    \o (IF y % x = 0 THEN <<y \div x>> ELSE <<>>)

FailedSkipped(w) ==
    LET elements == workers[w].elements
        n == Len(elements)
        q == PairAt(n, workers[w].pair)
        x == elements[q[1]].value
        y == elements[q[2]].value
    IN  (x > 0 /\ y > 0 /\ x <= I32Max - y) =>
           /\ Values(result_chan') = Values(result_chan) \o Amounts(x, y)
           /\ Len(combine_chan') = Len(combine_chan)
                 + (IF n > 2 THEN Len(Amounts(x, y)) ELSE 0)
           /\ seen' = seen
           /\ results' = results
           /\ pc' = pc
           /\ workers'[w].pc # "panicked"
           /\ workers'[w].pc = "combine" => workers'[w].elements = elements

C19_FailedSkipped ==
    [][\A w \in DOMAIN workers :
          (/\ workers[w].pc = "combine"
           /\ w \in DOMAIN workers'
           /\ workers'[w] # workers[w]) => FailedSkipped(w)]_vars

\* [65536, 65536]: the product does not fit and both differences are 0,
\* yet both quotients were sent after them
C19_Witness ==
    /\ base_numbers = <<65536, 65536>>
    /\ Values(result_chan) = <<131072, 1, 1>>
    /\ \A w \in DOMAIN workers : workers[w].pc # "combine"

(***************************************************************************)
(* C20: on wasm32, when all_combinations has returned, js_worker has left  *)
(* its loop with both channels empty: every list pushed was popped, every  *)
(* list combined is in the seen set, and every Number sent was merged, so  *)
(* the table has for each value sent an entry no longer than any Number    *)
(* sent for it.                                                            *)
(***************************************************************************)
C20_JsDrained ==
    (target_arch = "wasm32" /\ Returned) =>
       /\ combine_chan = <<>>
       /\ result_chan = <<>>
       /\ \A w \in DOMAIN workers : workers[w].pc = "done"
       /\ \A v \in DOMAIN expanded : \E key \in seen : SameAmounts(key, v)
       /\ \A k \in DOMAIN published :
             /\ k \in DOMAIN results
             /\ results[k].value = k
             /\ len(results[k]) <= published[k]

\* three operands: Numbers were sent from lists that had been pushed
C20_Witness ==
    /\ target_arch = "wasm32"
    /\ Returned
    /\ Len(base_numbers) = 3
    /\ \E v \in DOMAIN expanded : Len(v) = 2
    /\ \E k \in DOMAIN published : published[k] = 2

(***************************************************************************)
(* C21: a derivation uses each operand at most as often as the input holds *)
(* it. Every Number of the returned table has, for each value, no more     *)
(* leaves of that value than base_numbers has operands of it, hence a      *)
(* length of at most the number of operands less one; and the Numbers of   *)
(* a list being combined have, together, no more leaves of a value than    *)
(* base_numbers has operands of it.                                        *)
(***************************************************************************)
RECURSIVE LeafCount(_, _)
LeafCount(n, x) ==
    IF n.parent = <<>> THEN IF n.value = x THEN 1 ELSE 0
    ELSE LeafCount(n.parent[2], x) + LeafCount(n.parent[3], x)

RECURSIVE LeafCountAll(_, _)
LeafCountAll(elements, x) ==
    IF elements = <<>> THEN 0
    ELSE LeafCount(Head(elements), x) + LeafCountAll(Tail(elements), x)

TableUsesOperandsOnce ==
    Returned =>
       \A k \in DOMAIN results :
          /\ \A x \in Range(base_numbers) :
                LeafCount(results[k], x) <= Occurrences(base_numbers, x)
          /\ len(results[k]) <= Len(base_numbers) - 1

ExpandedUsesOperandsOnce ==
    \A w \in DOMAIN workers : workers[w].pc = "combine" =>
       \A x \in Range(base_numbers) :
          LeafCountAll(workers[w].elements, x) <= Occurrences(base_numbers, x)

C21_OperandsUsedOnce == TableUsesOperandsOnce /\ ExpandedUsesOperandsOnce

(***************************************************************************)
(* C22: when all_combinations has returned, the entry of each amount is as *)
(* short as the shortest derivation of that amount that uses each operand  *)
(* at most once. The shortest derivations are computed here from the       *)
(* operands alone, on lists of amounts with their costs.                   *)
(***************************************************************************)
\* the amounts of the operations on x and y that have a value
Outcomes(x, y) ==
    {x + y, x * y}
        \cup (IF x > y THEN {x - y} ELSE {})
        \cup (IF y > x THEN {y - x} ELSE {})
        \cup (IF x % y = 0 THEN {x \div y} ELSE {})
        \cup (IF y % x = 0 THEN {y \div x} ELSE {})

\* every [amount, cost] that operations on the list, each element used at
\* most once, can make
RECURSIVE Derivable(_)
Derivable(list) ==
    UNION {UNION {LET made == [amount |-> r,
                               cost |-> list[q[1]].cost + list[q[2]].cost + 1]
                  IN  {made} \cup
                         Derivable(Append(Without(list, q[1], q[2]), made)) :
                     r \in Outcomes(list[q[1]].amount, list[q[2]].amount)} :
              q \in {p \in (DOMAIN list) \X (DOMAIN list) : p[1] < p[2]}}

MinCost(numbers) ==
    LET all == Derivable([i \in DOMAIN numbers |->
                            [amount |-> numbers[i], cost |-> 0]])
    IN  [k \in {d.amount : d \in all} |->
            CHOOSE c \in {d.cost : d \in {e \in all : e.amount = k}} :
               \A d \in all : d.amount = k => c <= d.cost]

C22_ShortestCost ==
    Returned =>
       \E shortest \in {MinCost(base_numbers)} :
          \A k \in DOMAIN results :
             /\ k \in DOMAIN shortest
             /\ len(results[k]) = shortest[k]

(***************************************************************************)
(* C23: the panic of remove_from_vec is never reached, and no thread ever  *)
(* panics. For a worker in combine and every two Numbers a, b of its list  *)
(* at distinct positions, removing a then b finds an element both times;   *)
(* and no combination worker, and not the calling thread, has panicked.    *)
(***************************************************************************)
RemovalsFind ==
    \A w \in DOMAIN workers : workers[w].pc = "combine" =>
       \A i, j \in DOMAIN workers[w].elements : i # j =>
          LET elements == workers[w].elements
              first == remove_from_vec(elements, elements[i])
          IN  /\ first.found
              /\ Len(first.vec) = Len(elements) - 1
              /\ remove_from_vec(first.vec, elements[j]).found

NobodyPanics ==
    /\ pc # "panicked"
    /\ \A w \in DOMAIN workers : workers[w].pc # "panicked"

C23_NeverPanics == RemovalsFind /\ NobodyPanics

====
